---- MODULE Spec2Model ----
(***************************************************************************)
(* A state-machine model of the Xprz convenience layer over Express:       *)
(*   - AppManager  (src/src/shared/AppManager.js)                          *)
(*   - RouteManager (src/src/shared/RouteManager.js)                       *)
(* JavaScript `undefined` is the string "undefined", `null` handle is 0.   *)
(***************************************************************************)
EXTENDS Integers, Sequences, FiniteSets, TLC

VARIABLES
    \* ---- AppManager (one module-level instance) ----
    app,            \* this.app: 0 is null, h > 0 is the h-th Express application
    runApp,         \* this.runApp
    sharedApp,      \* the handle last passed to Using.setApp (0: never called)
    created,        \* number of applications created by appUtils.initApp
    listenCalls,    \* calls made to appUtils.listen: <<[app, port, textLog, log]>>
    consoleOut,     \* lines AppManager wrote with console.log
    alast,          \* the last AppManager call: its name, state before, outcome
    \* ---- RouteManager nodes ----
    nodeCount,      \* number of RouteManager instances constructed
    middlewares,    \* this.middlewares of each node
    hasMiddleware,  \* this.hasMiddleware of each node ("undefined" until use())
    p,              \* this.p of each node ("undefined" until setRoute())
    router,         \* the layers each node's Express router holds, in order
    stack,          \* group() calls whose callback is running, innermost last
    parentOf,       \* history: the group() call that constructed each node
    invoked,        \* history: how often a group callback was called with a node
    ops,            \* number of RouteManager calls made so far
    rlast,          \* the last RouteManager call: its name, arguments, outcome
    attached,       \* the routers attachTo mounted on an application: <<[app, node]>>
    \* ---- DependencyHandler and PackageManager ----
    installed,      \* the packages require() can resolve
    dhApp,          \* this.app of the DependencyHandler: 0 is null
    dhUse,          \* middleware the DependencyHandler registered: <<[app, mw]>>
    connectMongo,   \* PackageManager.js module variable connectMongo
    shUse,          \* middleware registered through useApp: <<[app, mw]>>
    pkgOps,         \* number of package-manager steps made so far
    plast,          \* the last capability request: its name, state before, outcome
    \* ---- ReqEnhancer ----
    req,            \* this.req: the request object the enhancer wraps (method
                    \* "undefined": no enhancer was constructed yet)
    dirty,          \* history: the request was changed since the last lookup
    qlast,          \* the last ReqEnhancer lookup: its name, argument, result
    \* ---- jsonSender ----
    sent,           \* the responses sent: <<[status, body]>>
    jlast,          \* the last jsonSender call: its method and arguments
    \* ---- CRUD get (core/CRUD/GET.js) ----
    crudRouter,     \* module variable router: 0 is undefined
    crudHandler,    \* module variable handler
    bindings,       \* the routes bound to apps and routers: <<[target, ...]>>
    crudOps,        \* number of calls of setRoute and get made so far
    clast,          \* the last call of get: its arguments, state before, outcome
    \* ---- MongoDB wrapper (handler/database/MongoDB.js) ----
    mongoClient,    \* this.mongoClient: 0 is null, c > 0 the c-th client connected
    mdb,            \* this.db: 0 is null, c > 0 the database of client c
    mclient,        \* this.client: "undefined" while the property does not exist
    driverCalls,    \* the calls made to the driver: <<[op, on]>>
    mongoOps,       \* number of MongoDB wrapper calls made so far
    mlast,          \* the last MongoDB wrapper call: its name, the driver's outcome, its own
    \* ---- jwtHandler (manager/Dependencies.js) ----
    jwtCalls,       \* the calls made to the jsonwebtoken library: <<[fn, arg, key]>>
    jwtOps,         \* number of jwtHandler calls and requests handled so far
    wlast,          \* the last jwtHandler call or request: arguments and outcome
    \* ---- template engines (unnamed/part_001) ----
    tplLoaded,      \* the template-engine module was loaded (require caches it)
    tplApp,         \* its module variable app: what getApp() returned at load
    tplExports,     \* module.exports is the TemplateEngines class
    appSettings,    \* the app.set and app.engine calls made: <<[app, fn, key, value]>>
    tplOps,         \* number of template-engine steps made so far
    tlast           \* the last template-engine step: its name, argument, outcome

appVars == <<app, runApp, sharedApp, created, listenCalls, consoleOut, alast>>
routeVars == <<nodeCount, middlewares, hasMiddleware, p, router, stack, parentOf,
               invoked, ops, rlast, attached>>
pkgVars == <<installed, dhApp, dhUse, connectMongo, shUse, pkgOps, plast>>
reqVars == <<req, dirty, qlast>>
jsonVars == <<sent, jlast>>
crudVars == <<crudRouter, crudHandler, bindings, crudOps, clast>>
mongoVars == <<mongoClient, mdb, mclient, driverCalls, mongoOps, mlast>>
jwtVars == <<jwtCalls, jwtOps, wlast>>
tplVars == <<tplLoaded, tplApp, tplExports, appSettings, tplOps, tlast>>
vars == <<appVars, routeVars, pkgVars, reqVars, jsonVars, crudVars, mongoVars, jwtVars, tplVars>>

\* What a step of one component leaves alone.
nonAppVars == <<routeVars, pkgVars, reqVars, jsonVars, crudVars, mongoVars, jwtVars, tplVars>>
nonRouteVars == <<appVars, pkgVars, reqVars, jsonVars, crudVars, mongoVars, jwtVars, tplVars>>
nonPkgVars == <<appVars, routeVars, reqVars, jsonVars, crudVars, mongoVars, jwtVars, tplVars>>
nonReqVars == <<appVars, routeVars, pkgVars, jsonVars, crudVars, mongoVars, jwtVars, tplVars>>
nonJsonVars == <<appVars, routeVars, pkgVars, reqVars, crudVars, mongoVars, jwtVars, tplVars>>
nonCrudVars == <<appVars, routeVars, pkgVars, reqVars, jsonVars, mongoVars, jwtVars, tplVars>>
nonMongoVars == <<appVars, routeVars, pkgVars, reqVars, jsonVars, crudVars, jwtVars, tplVars>>
nonJwtVars == <<appVars, routeVars, pkgVars, reqVars, jsonVars, crudVars, mongoVars, tplVars>>
nonTplVars == <<appVars, routeVars, pkgVars, reqVars, jsonVars, crudVars, mongoVars, jwtVars>>

(***************************************************************************)
(* Bounds of the model.                                                    *)
(***************************************************************************)
MaxApps == 3
MaxListen == 2
MaxConsole == 2
MaxNodes == 3
MaxOps == 5
MaxPkgOps == 4
MaxResponses == 2
MaxCrudOps == 4
MaxMongoOps == 3
MaxJwtOps == 2
MaxTplOps == 3

UNDEFINED == "undefined"
NULL == 0

(***************************************************************************)
(* AppManager                                                              *)
(***************************************************************************)
DefaultPort == 3000
Ports == {DefaultPort, 8080}
\* An argument of listen/launch is given or left out (undefined).
PortArgs == Ports \cup {-1}
TextArgs == {"up", UNDEFINED}
LogArgs == {"true", "false", UNDEFINED}

NotInitializedMsg == "Express app has not been initialized yet."

\* `Server is running on port ${port}`
DefaultText(port) == <<"Server is running on port ", port>>

\* A port parameter without its default value.
PortOf_noDefault(portArg) == portArg

\* Default parameter values of listen and launch.
PortOf(portArg) == IF portArg = -1 THEN DefaultPort ELSE portArg
TextOf(portArg, textArg) ==
    IF textArg = UNDEFINED THEN DefaultText(PortOf(portArg)) ELSE <<textArg>>
LogOf(logArg) == IF logArg = UNDEFINED THEN TRUE ELSE logArg = "true"

\* appUtils.initApp(): a new Express application, never one handed out before.
appUtils_initApp == created + 1

NoCall == [op |-> "none", wasRunning |-> FALSE, ret |-> NULL, threw |-> "none",
           listened |-> 0, logged |-> 0, portArg |-> -1]

\* An initApp that keeps an application it already holds.
InitAppResult_keepFirst ==
    LET h == IF app # NULL THEN app ELSE appUtils_initApp IN
    [app |-> h, sharedApp |-> h, runApp |-> TRUE, ret |-> h]

\* initApp without this.runApp = true.
InitAppResult_noFlag ==
    LET h == appUtils_initApp IN
    [app |-> h, sharedApp |-> h, runApp |-> runApp, ret |-> h]

\* initApp without the setApp call.
InitAppResult_noPublish ==
    LET h == appUtils_initApp IN
    [app |-> h, sharedApp |-> sharedApp, runApp |-> TRUE, ret |-> h]

\* AppManager.initApp: this.app, the argument of setApp, this.runApp and the
\* value returned.
InitAppResult ==
    LET h == appUtils_initApp IN
    [app |-> h, sharedApp |-> h, runApp |-> TRUE, ret |-> h]

\* What AppManager.listen does in a state with the given app and flag:
\* the calls to appUtils.listen it adds and the lines it logs.
ListenEffect(theApp, flag, portArg, textArg, logArg) ==
    IF flag
    THEN [calls |-> <<[app |-> theApp, port |-> PortOf(portArg),
                       textLog |-> TextOf(portArg, textArg),
                       log |-> LogOf(logArg)]>>,
          lines |-> <<>>, threw |-> "none"]
    ELSE [calls |-> <<>>, lines |-> <<NotInitializedMsg>>, threw |-> "none"]

initApp ==
    /\ created < MaxApps
    /\ LET r == InitAppResult IN
        /\ app' = r.app
        /\ sharedApp' = r.sharedApp
        /\ runApp' = r.runApp
        /\ alast' = [op |-> "initApp", wasRunning |-> runApp, ret |-> r.ret,
                     threw |-> "none", listened |-> 0, logged |-> 0,
                     portArg |-> -1]
    /\ created' = created + 1
    /\ UNCHANGED <<listenCalls, consoleOut>>
    /\ UNCHANGED nonAppVars

listen(portArg, textArg, logArg) ==
    /\ Len(listenCalls) < MaxListen
    /\ Len(consoleOut) < MaxConsole
    /\ LET e == ListenEffect(app, runApp, portArg, textArg, logArg) IN
        /\ listenCalls' = listenCalls \o e.calls
        /\ consoleOut' = consoleOut \o e.lines
        /\ alast' = [op |-> "listen", wasRunning |-> runApp, ret |-> NULL,
                     threw |-> e.threw, listened |-> Len(e.calls),
                     logged |-> Len(e.lines), portArg |-> portArg]
    /\ UNCHANGED <<app, runApp, sharedApp, created>>
    /\ UNCHANGED nonAppVars

launch(portArg, textArg, logArg) ==
    /\ created < MaxApps
    /\ Len(listenCalls) < MaxListen
    /\ LET r == InitAppResult
           e == ListenEffect(r.app, r.runApp, portArg, textArg, logArg) IN
        /\ app' = r.app
        /\ sharedApp' = r.sharedApp
        /\ runApp' = r.runApp
        /\ listenCalls' = listenCalls \o e.calls
        /\ consoleOut' = consoleOut \o e.lines
        /\ alast' = [op |-> "launch", wasRunning |-> runApp, ret |-> r.app,
                     threw |-> e.threw, listened |-> Len(e.calls),
                     logged |-> Len(e.lines), portArg |-> portArg]
    /\ created' = created + 1
    /\ UNCHANGED nonAppVars

AppInit ==
    /\ app = NULL
    /\ runApp = FALSE
    /\ sharedApp = NULL
    /\ created = 0
    /\ listenCalls = <<>>
    /\ consoleOut = <<>>
    /\ alast = NoCall

AppNext ==
    \/ initApp
    \/ \E pa \in PortArgs, ta \in TextArgs, la \in LogArgs : listen(pa, ta, la)
    \/ \E pa \in PortArgs, ta \in TextArgs, la \in LogArgs : launch(pa, ta, la)

(***************************************************************************)
(* RouteManager                                                            *)
(***************************************************************************)
NodeIds == 1..MaxNodes
Middlewares == {"m1", "m2"}
Paths == {"/a", "/b"}
GroupPrefixes == {"/api"}
HandlerLists == {<<"h1", "h2">>}
Verbs == {"get", "post", "del", "put"}

\* The router method each verb of RouteManager calls.
RouterMethod(verb) == IF verb = "del" THEN "delete" ELSE verb

\* A layer of an Express router: a route (router.METHOD(path, ...handlers), the
\* handlers flattened as Express flattens them) or a mounted router
\* (router.use(path, childRouter)).
Route(method, path, handlers) ==
    [kind |-> "route", method |-> method, path |-> path,
     handlers |-> handlers, child |-> 0]
Mount(path, child) ==
    [kind |-> "mount", method |-> "use", path |-> path,
     handlers |-> <<>>, child |-> child]

\* JavaScript truthiness of this.hasMiddleware.
Truthy(flag) == flag = "true"

\* A push that skips a middleware already in the list.
pushMiddleware_dedupe(list, middleware) ==
    IF \E i \in 1..Len(list) : list[i] = middleware THEN list
    ELSE Append(list, middleware)

\* this.middlewares.push(middleware)
pushMiddleware(list, middleware) == Append(list, middleware)

\* A flag that needs more than one middleware.
flagOf_strict(list) == IF Len(list) > 1 THEN "true" ELSE "false"

\* this.middlewares.length > 0 ? true : false
flagOf(list) == IF Len(list) > 0 THEN "true" ELSE "false"

\* An assignment that keeps a base path already set.
assignPath_firstWins(old, path) == IF old = UNDEFINED THEN path ELSE old

\* this.p = path
assignPath(old, path) == path

\* registerRoute(method, handlers): the router call it makes.
registerRoute(n, method, handlers) ==
    <<Route(method, p[n], middlewares[n] \o handlers)>>

\* A get that registers once: through registerRoute or directly.
getCalls_once(n, handlers) ==
    IF Truthy(hasMiddleware[n])
    THEN registerRoute(n, "get", handlers)
    ELSE <<Route("get", p[n], handlers)>>

\* The router calls get(...handlers) makes, in order.
getCalls(n, handlers) ==
    (IF Truthy(hasMiddleware[n]) THEN registerRoute(n, "get", handlers) ELSE <<>>)
        \o <<Route("get", p[n], handlers)>>

\* The router call post/del/put(...handlers) makes.
plainCalls(n, verb, handlers) == <<Route(RouterMethod(verb), p[n], handlers)>>

NoRouteCall ==
    [op |-> "none", node |-> 0, ret |-> 0, mw |-> "", path |-> "",
     handlers |-> <<>>, added |-> 0, threw |-> "none", child |-> 0]

\* new RouteManager()
NewNodeId == nodeCount + 1

constructor ==
    /\ nodeCount < MaxNodes
    /\ nodeCount' = NewNodeId
    /\ middlewares' = [middlewares EXCEPT ![NewNodeId] = <<>>]
    /\ router' = [router EXCEPT ![NewNodeId] = <<>>]
    /\ rlast' = [NoRouteCall EXCEPT !.op = "new", !.node = NewNodeId,
                                    !.ret = NewNodeId]
    /\ ops < MaxOps
    /\ ops' = ops + 1
    /\ UNCHANGED <<hasMiddleware, p, stack, parentOf, invoked>>
    /\ UNCHANGED attached
    /\ UNCHANGED nonRouteVars

use(n, middleware) ==
    /\ n \in 1..nodeCount
    /\ ops < MaxOps
    /\ LET list == pushMiddleware(middlewares[n], middleware) IN
        /\ middlewares' = [middlewares EXCEPT ![n] = list]
        /\ hasMiddleware' = [hasMiddleware EXCEPT ![n] = flagOf(list)]
    /\ ops' = ops + 1
    /\ rlast' = [NoRouteCall EXCEPT !.op = "use", !.node = n, !.ret = n,
                                    !.mw = middleware]
    /\ UNCHANGED <<nodeCount, p, router, stack, parentOf, invoked>>
    /\ UNCHANGED attached
    /\ UNCHANGED nonRouteVars

setRoute(n, path) ==
    /\ n \in 1..nodeCount
    /\ ops < MaxOps
    /\ p' = [p EXCEPT ![n] = assignPath(p[n], path)]
    /\ ops' = ops + 1
    /\ rlast' = [NoRouteCall EXCEPT !.op = "setRoute", !.node = n, !.ret = n,
                                    !.path = path]
    /\ UNCHANGED <<nodeCount, middlewares, hasMiddleware, router, stack, parentOf,
                   invoked>>
    /\ UNCHANGED attached
    /\ UNCHANGED nonRouteVars

\* A verb method making the router calls `calls` in order.  Express takes a
\* string path; given undefined it either throws a TypeError out of the first
\* call (path-to-regexp of Express 4) or registers the path String(undefined)
\* (router 2 of Express 5): `accepted` is the outcome.
verb(n, name, handlers, calls, accepted) ==
    /\ n \in 1..nodeCount
    /\ ops < MaxOps
    /\ p[n] # UNDEFINED => accepted
    /\ ops' = ops + 1
    /\ IF accepted
       THEN /\ router' = [router EXCEPT ![n] = router[n] \o calls]
            /\ rlast' = [NoRouteCall EXCEPT !.op = name, !.node = n, !.ret = n,
                             !.handlers = handlers, !.added = Len(calls)]
       ELSE /\ router' = router
            /\ rlast' = [NoRouteCall EXCEPT !.op = name, !.node = n,
                             !.handlers = handlers, !.threw = "TypeError"]
    /\ UNCHANGED <<nodeCount, middlewares, hasMiddleware, p, stack, parentOf,
                   invoked>>
    /\ UNCHANGED attached
    /\ UNCHANGED nonRouteVars

get(n, handlers, accepted) ==
    verb(n, "get", handlers, getCalls(n, handlers), accepted)

post(n, handlers, accepted) ==
    verb(n, "post", handlers, plainCalls(n, "post", handlers), accepted)

del(n, handlers, accepted) ==
    verb(n, "del", handlers, plainCalls(n, "del", handlers), accepted)

put(n, handlers, accepted) ==
    verb(n, "put", handlers, plainCalls(n, "put", handlers), accepted)

\* group(mainRoute, callback), up to and including the call of the callback:
\* a new RouteManager is constructed and the callback starts running with it.
group_call(n, mainRoute) ==
    /\ n \in 1..nodeCount
    /\ nodeCount < MaxNodes
    /\ nodeCount' = NewNodeId
    /\ middlewares' = [middlewares EXCEPT ![NewNodeId] = <<>>]
    /\ router' = [router EXCEPT ![NewNodeId] = <<>>]
    /\ stack' = Append(stack, [node |-> n, mainRoute |-> mainRoute,
                               subRouteManager |-> NewNodeId])
    /\ parentOf' = [parentOf EXCEPT ![NewNodeId] =
                        [node |-> n, mainRoute |-> mainRoute]]
    /\ invoked' = [invoked EXCEPT ![NewNodeId] = @ + 1]
    /\ rlast' = [NoRouteCall EXCEPT !.op = "group_call", !.node = n,
                                    !.path = mainRoute, !.child = NewNodeId]
    /\ ops < MaxOps
    /\ ops' = ops + 1
    /\ UNCHANGED <<hasMiddleware, p>>
    /\ UNCHANGED attached
    /\ UNCHANGED nonRouteVars

\* A mount that leaves the prefix out: this.router.use(subRouteManager.router)
mountOf_noPrefix(frame) == Mount("/", frame.subRouteManager)

\* this.router.use(mainRoute, subRouteManager.router)
mountOf(frame) == Mount(frame.mainRoute, frame.subRouteManager)

\* group(mainRoute, callback), from the return of the callback: the child's
\* router is mounted on this.router and group returns this.
group_return ==
    /\ stack # <<>>
    /\ LET frame == stack[Len(stack)] IN
        /\ router' = [router EXCEPT ![frame.node] = Append(@, mountOf(frame))]
        /\ rlast' = [NoRouteCall EXCEPT !.op = "group_return", !.node = frame.node,
                         !.ret = frame.node, !.path = frame.mainRoute,
                         !.child = frame.subRouteManager, !.added = 1]
    /\ stack' = SubSeq(stack, 1, Len(stack) - 1)
    /\ UNCHANGED <<nodeCount, middlewares, hasMiddleware, p, parentOf, invoked,
                   ops>>
    /\ UNCHANGED attached
    /\ UNCHANGED nonRouteVars

\* The applications a caller passes to attachTo.
AttachApps == {1}

\* An attachTo that also forgets the node's base path.
attachTo_resets(n, theApp) ==
    /\ n \in 1..nodeCount
    /\ ops < MaxOps
    /\ attached' = Append(attached, [app |-> theApp, node |-> n])
    /\ p' = [p EXCEPT ![n] = UNDEFINED]
    /\ ops' = ops + 1
    /\ rlast' = [NoRouteCall EXCEPT !.op = "attachTo", !.node = n]
    /\ UNCHANGED <<nodeCount, middlewares, hasMiddleware, router, stack,
                   parentOf, invoked>>
    /\ UNCHANGED nonRouteVars

\* attachTo(app): app.use(this.router), on the application the caller passes.
attachTo(n, theApp) ==
    /\ n \in 1..nodeCount
    /\ ops < MaxOps
    /\ attached' = Append(attached, [app |-> theApp, node |-> n])
    /\ ops' = ops + 1
    /\ rlast' = [NoRouteCall EXCEPT !.op = "attachTo", !.node = n]
    /\ UNCHANGED <<nodeCount, middlewares, hasMiddleware, p, router, stack,
                   parentOf, invoked>>
    /\ UNCHANGED nonRouteVars

RouteInit ==
    /\ nodeCount = 0
    /\ middlewares = [n \in NodeIds |-> <<>>]
    /\ hasMiddleware = [n \in NodeIds |-> UNDEFINED]
    /\ p = [n \in NodeIds |-> UNDEFINED]
    /\ router = [n \in NodeIds |-> <<>>]
    /\ stack = <<>>
    /\ parentOf = [n \in NodeIds |-> [node |-> 0, mainRoute |-> ""]]
    /\ invoked = [n \in NodeIds |-> 0]
    /\ ops = 0
    /\ rlast = NoRouteCall
    /\ attached = <<>>

RouteNext ==
    \/ constructor
    \/ \E n \in NodeIds, m \in Middlewares : use(n, m)
    \/ \E n \in NodeIds, path \in Paths : setRoute(n, path)
    \/ \E n \in NodeIds, hs \in HandlerLists, ok \in BOOLEAN : get(n, hs, ok)
    \/ \E n \in NodeIds, hs \in HandlerLists, ok \in BOOLEAN : post(n, hs, ok)
    \/ \E n \in NodeIds, hs \in HandlerLists, ok \in BOOLEAN : del(n, hs, ok)
    \/ \E n \in NodeIds, hs \in HandlerLists, ok \in BOOLEAN : put(n, hs, ok)
    \/ \E n \in NodeIds, mainRoute \in GroupPrefixes : group_call(n, mainRoute)
    \/ group_return
    \/ \E n \in NodeIds, theApp \in AttachApps : attachTo(n, theApp)

(***************************************************************************)
(* DependencyHandler (src/src/manager/Dependencies.js) and PackageManager  *)
(* (src/src/manager/PackageManager.js)                                     *)
(***************************************************************************)
Packages == {"express-session", "multer", "csurf", "cors", "body-parser",
             "connect-flash", "connect-mongodb-session"}

\* The package each use()-registering method of DependencyHandler resolves.
DhPackage == [muter |-> "multer", csrf |-> "csurf", cors |-> "cors",
              bodyParser |-> "body-parser", flash |-> "connect-flash"]

NoError == [kind |-> "none", text |-> <<>>]
\* new Error("Express app has not been initialized yet.")
UninitError == [kind |-> "Error", text |-> <<NotInitializedMsg>>]
SessionSkippedMsg == "Session initialization skipped. connectMongo is false."

\* A message is kept as the pieces of its template literal; it names a
\* package when the package's name is one of the pieces.
Names(err, pkg) == \E i \in 1..Len(err.text) : err.text[i] = pkg

\* The message ensurePackage builds, without the package's name in it.
EnsureMsg_generic(packageName) ==
    <<"The module is not installed. Please make sure to install it",
      " before using sessions.">>

\* `The '${packageName}' module is not installed. Please make sure to install
\* it by running 'npm install ${packageName}' before using sessions.`
EnsureMsg(packageName) ==
    <<"The '", packageName,
      "' module is not installed. Please make sure to install it by running 'npm install ",
      packageName, "' before using sessions.">>

\* ensurePackage(packageName) where require resolves the packages in inst.
ensurePackage(packageName, inst) ==
    IF packageName \in inst
    THEN [ok |-> TRUE, err |-> NoError]
    ELSE [ok |-> FALSE, err |-> [kind |-> "Error", text |-> EnsureMsg(packageName)]]

\* $install(packageName) of utils/installPkg: the package, or an error that
\* names it.
install(packageName, inst) ==
    IF packageName \in inst
    THEN [ok |-> TRUE, err |-> NoError]
    ELSE [ok |-> FALSE,
          err |-> [kind |-> "MissingDependencyError", text |-> <<packageName>>]]

\* new PackageInitializationError(packageName, message)
PackageInitializationError(packageName, message) ==
    [kind |-> "PackageInitializationError", text |-> <<packageName>> \o message]

\* this.use(middleware) inherited by DependencyHandler.
AppManager_use(theApp, mw) ==
    IF theApp = NULL
    THEN [threw |-> UninitError, uses |-> <<>>]
    ELSE [threw |-> NoError, uses |-> <<[app |-> theApp, mw |-> mw]>>]

\* useApp(middleware) of shareApp: app.use on the shared application.
useApp(theApp, mw) ==
    IF theApp = NULL
    THEN [threw |-> UninitError, uses |-> <<>>]
    ELSE [threw |-> NoError, uses |-> <<[app |-> theApp, mw |-> mw]>>]

\* A session that resolves the package before it looks at this.app.
DhSessionEffect_resolveFirst(theApp, inst) ==
    LET r == ensurePackage("express-session", inst) IN
    IF ~r.ok
    THEN [threw |-> r.err, resolves |-> <<"express-session">>, uses |-> <<>>]
    ELSE IF theApp = NULL
    THEN [threw |-> UninitError, resolves |-> <<"express-session">>, uses |-> <<>>]
    ELSE [threw |-> NoError, resolves |-> <<"express-session">>,
          uses |-> <<[app |-> theApp, mw |-> "express-session"]>>]

\* DependencyHandler.session: the error thrown, the packages it tried to
\* resolve and the this.app.use calls made.
DhSessionEffect(theApp, inst) ==
    IF theApp = NULL
    THEN [threw |-> UninitError, resolves |-> <<>>, uses |-> <<>>]
    ELSE LET r == ensurePackage("express-session", inst) IN
         IF ~r.ok
         THEN [threw |-> r.err, resolves |-> <<"express-session">>, uses |-> <<>>]
         ELSE [threw |-> NoError, resolves |-> <<"express-session">>,
               uses |-> <<[app |-> theApp, mw |-> "express-session"]>>]

\* muter, csrf, cors, bodyParser, flash: ensurePackage, then this.use.
DhUseEffect(pkg, theApp, inst) ==
    LET r == ensurePackage(pkg, inst) IN
    IF ~r.ok
    THEN [threw |-> r.err, resolves |-> <<pkg>>, uses |-> <<>>]
    ELSE LET u == AppManager_use(theApp, pkg) IN
         [threw |-> u.threw, resolves |-> <<pkg>>, uses |-> u.uses]

\* DependencyHandler.connectMongoDbSession: ensurePackage, then the store.
DhStoreEffect(inst) ==
    LET r == ensurePackage("connect-mongodb-session", inst) IN
    [threw |-> r.err, resolves |-> <<"connect-mongodb-session">>, uses |-> <<>>]

\* An initSession that resolves express-session whatever the flag is.
initSession_unconditional(flag, inst) ==
    LET r == install("express-session", inst) IN
    [session |-> r.ok, threw |-> r.err, resolves |-> <<"express-session">>]

\* initSession(): null while connectMongo is false.
initSession(flag, inst) ==
    IF flag
    THEN LET r == install("express-session", inst) IN
         [session |-> r.ok, threw |-> r.err, resolves |-> <<"express-session">>]
    ELSE [session |-> FALSE, threw |-> NoError, resolves |-> <<>>]

\* PackageManager.session: what it throws, resolves, registers and warns.
PmSessionEffect(flag, theApp, inst) ==
    LET s == initSession(flag, inst) IN
    IF s.threw # NoError
    THEN [threw |-> s.threw, resolves |-> s.resolves, uses |-> <<>>, warned |-> <<>>]
    ELSE IF s.session
    THEN LET u == useApp(theApp, "express-session") IN
         [threw |-> u.threw, resolves |-> s.resolves, uses |-> u.uses,
          warned |-> <<>>]
    ELSE [threw |-> NoError, resolves |-> s.resolves, uses |-> <<>>,
          warned |-> <<SessionSkippedMsg>>]

\* PackageManager.connectMongoDbSession after connectMongo = true:
\* initSession() outside the try, $install("connect-mongodb-session") inside.
PmStoreEffect(inst) ==
    LET s == initSession(TRUE, inst) IN
    IF s.threw # NoError
    THEN [threw |-> s.threw, resolves |-> s.resolves, uses |-> <<>>]
    ELSE LET r == install("connect-mongodb-session", inst) IN
         [threw |-> IF r.ok THEN NoError
                    ELSE PackageInitializationError("connect-mongodb-session",
                                                    r.err.text),
          resolves |-> s.resolves \o <<"connect-mongodb-session">>, uses |-> <<>>]

NoPkgCall == [op |-> "none", pkg |-> UNDEFINED, hadApp |-> FALSE,
              flagBefore |-> FALSE, resolvable |-> FALSE, threw |-> NoError,
              resolves |-> <<>>, registered |-> 0, warned |-> 0]

\* The record of one capability request.
PkgCall(op, pkg, theApp, e, warned) ==
    [op |-> op, pkg |-> pkg, hadApp |-> theApp # NULL,
     flagBefore |-> connectMongo, resolvable |-> pkg \in installed,
     threw |-> e.threw, resolves |-> e.resolves, registered |-> Len(e.uses),
     warned |-> warned]

\* A package becomes resolvable (npm install).
npmInstall(pkg) ==
    /\ pkgOps < MaxPkgOps
    /\ pkg \notin installed
    /\ installed' = installed \cup {pkg}
    /\ plast' = [NoPkgCall EXCEPT !.op = "npmInstall", !.pkg = pkg]
    /\ pkgOps' = pkgOps + 1
    /\ UNCHANGED <<dhApp, dhUse, connectMongo, shUse>>
    /\ UNCHANGED nonPkgVars

\* initApp inherited by DependencyHandler: this.app becomes a new application.
DependencyHandler_initApp ==
    /\ pkgOps < MaxPkgOps
    /\ dhApp < MaxApps
    /\ dhApp' = dhApp + 1
    /\ plast' = [NoPkgCall EXCEPT !.op = "dh_initApp"]
    /\ pkgOps' = pkgOps + 1
    /\ UNCHANGED <<installed, dhUse, connectMongo, shUse>>
    /\ UNCHANGED nonPkgVars

DependencyHandler_session ==
    /\ pkgOps < MaxPkgOps
    /\ LET e == DhSessionEffect(dhApp, installed) IN
        /\ dhUse' = dhUse \o e.uses
        /\ plast' = PkgCall("dh_session", "express-session", dhApp, e, 0)
    /\ pkgOps' = pkgOps + 1
    /\ UNCHANGED <<installed, dhApp, connectMongo, shUse>>
    /\ UNCHANGED nonPkgVars

\* One of muter, csrf, cors, bodyParser, flash.
DependencyHandler_method(name) ==
    /\ pkgOps < MaxPkgOps
    /\ LET e == DhUseEffect(DhPackage[name], dhApp, installed) IN
        /\ dhUse' = dhUse \o e.uses
        /\ plast' = PkgCall(name, DhPackage[name], dhApp, e, 0)
    /\ pkgOps' = pkgOps + 1
    /\ UNCHANGED <<installed, dhApp, connectMongo, shUse>>
    /\ UNCHANGED nonPkgVars

DependencyHandler_connectMongoDbSession ==
    /\ pkgOps < MaxPkgOps
    /\ LET e == DhStoreEffect(installed) IN
        plast' = PkgCall("dh_connectMongoDbSession", "connect-mongodb-session",
                         dhApp, e, 0)
    /\ pkgOps' = pkgOps + 1
    /\ UNCHANGED <<installed, dhApp, dhUse, connectMongo, shUse>>
    /\ UNCHANGED nonPkgVars

PackageManager_session ==
    /\ pkgOps < MaxPkgOps
    /\ LET e == PmSessionEffect(connectMongo, sharedApp, installed) IN
        /\ shUse' = shUse \o e.uses
        /\ plast' = PkgCall("pm_session", "express-session", sharedApp, e,
                            Len(e.warned))
    /\ pkgOps' = pkgOps + 1
    /\ UNCHANGED <<installed, dhApp, dhUse, connectMongo>>
    /\ UNCHANGED nonPkgVars

PackageManager_connectMongoDbSession ==
    /\ pkgOps < MaxPkgOps
    /\ connectMongo' = TRUE
    /\ LET e == PmStoreEffect(installed) IN
        plast' = PkgCall("pm_connectMongoDbSession", "connect-mongodb-session",
                         sharedApp, e, 0)
    /\ pkgOps' = pkgOps + 1
    /\ UNCHANGED <<installed, dhApp, dhUse, shUse>>
    /\ UNCHANGED nonPkgVars

PkgInit ==
    /\ installed = {}
    /\ dhApp = NULL
    /\ dhUse = <<>>
    /\ connectMongo = FALSE
    /\ shUse = <<>>
    /\ pkgOps = 0
    /\ plast = NoPkgCall

PkgNext ==
    \/ \E pkg \in Packages : npmInstall(pkg)
    \/ DependencyHandler_initApp
    \/ DependencyHandler_session
    \/ \E name \in DOMAIN DhPackage : DependencyHandler_method(name)
    \/ DependencyHandler_connectMongoDbSession
    \/ PackageManager_session
    \/ PackageManager_connectMongoDbSession

(***************************************************************************)
(* ReqEnhancer (src/src/handler/router/req/ReqEnhancer.js)                 *)
(***************************************************************************)
ParamKeys == {"a", "constructor"}
ParamValues == {"v1"}
HeaderKeys == {"X-Id", "x-id"}
HeaderValues == {"v1", "v2"}
HeaderArgs == {"X-Id", "x-id", "X-ID", "constructor"}
Methods == {"GET", "post"}
MethodArgs == {"GET", "get", "POST"}

\* String.prototype.toLowerCase on the strings of the model.
toLowerCase ==
    [c \in HeaderKeys \cup HeaderArgs \cup Methods \cup MethodArgs |->
        CASE c \in {"X-Id", "x-id", "X-ID"} -> "x-id"
          [] c \in {"GET", "get"} -> "get"
          [] c \in {"POST", "post"} -> "post"
          [] OTHER -> c]

\* Object.prototype: what every object made by {} inherits (one property of
\* it is kept: constructor, the function Object).
ObjectPrototype == [constructor |-> "[Function: Object]"]

\* The empty object, and obj with obj[k] = v assigned.
EmptyObject == [k \in {} |-> UNDEFINED]
Assign(obj, k, v) ==
    [x \in DOMAIN obj \cup {k} |-> IF x = k THEN v ELSE obj[x]]
Delete(obj, k) == [x \in DOMAIN obj \ {k} |-> obj[x]]

\* An `in` that looks at own properties only.
In_ownOnly(k, obj, inherits) == k \in DOMAIN obj

\* k in obj: own properties and, if obj inherits from Object.prototype, the
\* properties of the prototype.
In(k, obj, inherits) ==
    k \in DOMAIN obj \/ (inherits /\ k \in DOMAIN ObjectPrototype)

\* obj[k]
Get(obj, k, inherits) ==
    IF k \in DOMAIN obj THEN obj[k]
    ELSE IF inherits /\ k \in DOMAIN ObjectPrototype THEN ObjectPrototype[k]
    ELSE UNDEFINED

hasQueryParam(r, paramName) == In(paramName, r.query, r.inherits)
getQueryParam(r, paramName) == Get(r.query, paramName, r.inherits)
hasBodyParam(r, paramName) == In(paramName, r.body, r.inherits)
hasCookie(r, cookieName) == In(cookieName, r.cookies, r.inherits)
getCookieName(r, cookieName) == Get(r.cookies, cookieName, r.inherits)

\* Object.keys(this.req.headers).map((header) => header.toLowerCase())
RECURSIVE lowerKeys(_)
lowerKeys(headers) ==
    IF headers = <<>> THEN <<>>
    ELSE <<toLowerCase[Head(headers).key]>> \o lowerKeys(Tail(headers))

hasHeaderIgnoreCase(r, headerName) ==
    LET headers == lowerKeys(r.headers) IN
    \E i \in 1..Len(headers) : headers[i] = toLowerCase[headerName]

\* Object.keys(this.req.headers).reduce((acc, curr) => { ... }, acc)
RECURSIVE reduceHeaders(_, _)
reduceHeaders(headers, acc) ==
    IF headers = <<>> THEN acc
    ELSE reduceHeaders(Tail(headers),
                       Assign(acc, toLowerCase[Head(headers).key],
                              Head(headers).value))

\* The accumulator is made by {}: it inherits from Object.prototype.
getHeaderIgnoreCase(r, headerName) ==
    LET headers == reduceHeaders(r.headers, EmptyObject) IN
    Get(headers, toLowerCase[headerName], TRUE)

isMethod(r, method) == toLowerCase[r.method] = toLowerCase[method]

Lookups == {"hasQueryParam", "getQueryParam", "hasBodyParam", "hasCookie",
            "getCookieName", "hasHeaderIgnoreCase", "getHeaderIgnoreCase",
            "isMethod"}

\* The arguments each lookup is called with.
ArgsOf(fn) ==
    CASE fn \in {"hasHeaderIgnoreCase", "getHeaderIgnoreCase"} -> HeaderArgs
      [] fn = "isMethod" -> MethodArgs
      [] OTHER -> ParamKeys \cup {"b"}

\* A boolean result as it is recorded next to string results.
Bool(b) == IF b THEN "true" ELSE "false"

\* The value a lookup returns on request r.
Apply(fn, arg, r) ==
    CASE fn = "hasQueryParam" -> Bool(hasQueryParam(r, arg))
      [] fn = "getQueryParam" -> getQueryParam(r, arg)
      [] fn = "hasBodyParam" -> Bool(hasBodyParam(r, arg))
      [] fn = "hasCookie" -> Bool(hasCookie(r, arg))
      [] fn = "getCookieName" -> getCookieName(r, arg)
      [] fn = "hasHeaderIgnoreCase" -> Bool(hasHeaderIgnoreCase(r, arg))
      [] fn = "getHeaderIgnoreCase" -> getHeaderIgnoreCase(r, arg)
      [] fn = "isMethod" -> Bool(isMethod(r, arg))

\* A lookup that answers a repeated call from the answer it gave before.
callResult_cached(fn, arg, r, last) ==
    IF last.fn = fn /\ last.arg = arg THEN last.result ELSE Apply(fn, arg, r)

\* A call of a lookup: computed from this.req as it is at the call.
callResult(fn, arg, r, last) == Apply(fn, arg, r)

NoLookup == [fn |-> "none", arg |-> UNDEFINED, result |-> UNDEFINED]

\* No ReqEnhancer yet.
NoRequest ==
    [query |-> EmptyObject, body |-> EmptyObject, cookies |-> EmptyObject,
     headers |-> <<>>, method |-> UNDEFINED, inherits |-> FALSE]

\* new ReqEnhancer(req) for a request with nothing in it; whether the objects
\* the framework parsed (query, body, cookies) inherit from Object.prototype
\* is the framework's.
ReqEnhancer(inherits, m) ==
    /\ req = NoRequest
    /\ req' = [NoRequest EXCEPT !.method = m, !.inherits = inherits]
    /\ UNCHANGED <<dirty, qlast>>
    /\ UNCHANGED nonReqVars

lookup(fn, arg) ==
    /\ req # NoRequest
    /\ qlast' = [fn |-> fn, arg |-> arg, result |-> callResult(fn, arg, req, qlast)]
    /\ dirty' = FALSE
    /\ UNCHANGED req
    /\ UNCHANGED nonReqVars

\* The request changes under the enhancer (a middleware writes to it).
setParam(field, k, v) ==
    /\ req # NoRequest
    /\ req' = [req EXCEPT ![field] = Assign(@, k, v)]
    /\ req' # req
    /\ dirty' = TRUE
    /\ UNCHANGED qlast
    /\ UNCHANGED nonReqVars

deleteParam(field, k) ==
    /\ req # NoRequest
    /\ k \in DOMAIN req[field]
    /\ req' = [req EXCEPT ![field] = Delete(@, k)]
    /\ dirty' = TRUE
    /\ UNCHANGED qlast
    /\ UNCHANGED nonReqVars

\* req.headers[key] = v: a new key comes last in Object.keys order.
setHeader(key, v) ==
    /\ req # NoRequest
    /\ req' = [req EXCEPT !.headers =
                  IF \E i \in 1..Len(@) : @[i].key = key
                  THEN [i \in 1..Len(@) |->
                           IF @[i].key = key THEN [key |-> key, value |-> v]
                           ELSE @[i]]
                  ELSE Append(@, [key |-> key, value |-> v])]
    /\ req' # req
    /\ dirty' = TRUE
    /\ UNCHANGED qlast
    /\ UNCHANGED nonReqVars

deleteHeader(key) ==
    /\ \E i \in 1..Len(req.headers) : req.headers[i].key = key
    /\ req' = [req EXCEPT !.headers =
                  SelectSeq(@, LAMBDA h : h.key # key)]
    /\ dirty' = TRUE
    /\ UNCHANGED qlast
    /\ UNCHANGED nonReqVars

setMethod(m) ==
    /\ req # NoRequest
    /\ m # req.method
    /\ req' = [req EXCEPT !.method = m]
    /\ dirty' = TRUE
    /\ UNCHANGED qlast
    /\ UNCHANGED nonReqVars

ReqInit ==
    /\ req = NoRequest
    /\ dirty = FALSE
    /\ qlast = NoLookup

ReqNext ==
    \/ \E inherits \in BOOLEAN, m \in Methods : ReqEnhancer(inherits, m)
    \/ \E fn \in Lookups : \E arg \in ArgsOf(fn) : lookup(fn, arg)
    \/ \E k \in ParamKeys, v \in ParamValues : setParam("query", k, v)
    \/ \E v \in ParamValues : setParam("body", "a", v)
    \/ \E v \in ParamValues : setParam("cookies", "a", v)
    \/ \E field \in {"query", "body", "cookies"}, k \in ParamKeys :
           deleteParam(field, k)
    \/ \E key \in HeaderKeys, v \in HeaderValues : setHeader(key, v)
    \/ \E key \in HeaderKeys : deleteHeader(key)
    \/ \E m \in Methods : setMethod(m)

(***************************************************************************)
(* jsonSender (documented in src/docs/routes/res/json.doc.md)              *)
(***************************************************************************)
Messages == {"Resource not found", "Try again"}
Objects == {"object1", "object2"}

\* A property a body does not have.
ABSENT == "absent"

\* A body: { message }, { message, data }, or an object sent as it is.
Body(message, data, object) ==
    [message |-> message, data |-> data, object |-> object]

\* The methods that take a message, and the message a method uses when it
\* is called without one ([message="..."] in the documentation).
DefaultMessage ==
    [badRequest |-> "Bad request",
     authRequired |-> "Authentication required",
     forbidden |-> "Forbidden",
     internalServerError |-> "Internal server error",
     notFound |-> UNDEFINED,
     serviceUnavailable |-> UNDEFINED]

\* The methods that send the object they are given.
ObjectMethods == {"created", "updated", "deleted", "validationFailed"}

\* A message parameter that ignores its documented default.
messageOrDefault_noDefault(method, message) == message

messageOrDefault(method, message) ==
    IF message = UNDEFINED THEN DefaultMessage[method] ELSE message

\* The message rateLimitExceeded() sends.
RateLimitMessage == "Rate limit exceeded"

\* The status code each method sets.
StatusOf ==
    [success |-> 200, created |-> 201, updated |-> 200, deleted |-> 200,
     validationFailed |-> 400, badRequest |-> 400, authRequired |-> 401,
     forbidden |-> 403, notFound |-> 404, rateLimitExceeded |-> 429,
     internalServerError |-> 500, serviceUnavailable |-> 503]

NoJsonCall == [method |-> "none", message |-> UNDEFINED, data |-> UNDEFINED]

\* this.status(code); this.json(body)
respond(method, message, data, body) ==
    /\ Len(sent) < MaxResponses
    /\ sent' = Append(sent, [status |-> StatusOf[method], body |-> body])
    /\ jlast' = [method |-> method, message |-> message, data |-> data]
    /\ UNCHANGED nonJsonVars

jsonSender_success(message, data) ==
    respond("success", message, data,
            IF data = UNDEFINED THEN Body(message, ABSENT, ABSENT)
            ELSE Body(message, data, ABSENT))

\* created, updated, deleted, validationFailed: the object itself.
jsonSender_object(method, object) ==
    respond(method, UNDEFINED, object, Body(ABSENT, ABSENT, object))

\* badRequest, authRequired, forbidden, notFound, internalServerError,
\* serviceUnavailable: { message }.
jsonSender_message(method, message) ==
    respond(method, message, UNDEFINED,
            Body(messageOrDefault(method, message), ABSENT, ABSENT))

jsonSender_rateLimitExceeded ==
    respond("rateLimitExceeded", UNDEFINED, UNDEFINED,
            Body(RateLimitMessage, ABSENT, ABSENT))

JsonInit ==
    /\ sent = <<>>
    /\ jlast = NoJsonCall

JsonNext ==
    \/ \E m \in Messages, d \in Objects \cup {UNDEFINED} :
           jsonSender_success(m, d)
    \/ \E method \in ObjectMethods, o \in Objects : jsonSender_object(method, o)
    \/ \E method \in DOMAIN DefaultMessage, m \in Messages \cup {UNDEFINED} :
           jsonSender_message(method, m)
    \/ jsonSender_rateLimitExceeded

(***************************************************************************)
(* CRUD get (src/src/core/CRUD/GET.js)                                     *)
(***************************************************************************)
RouterIds == {1, 2}
\* The arguments of setRoute: a router, or an empty value (0: undefined, null).
RouterArgs == RouterIds \cup {0}
Urls == {"/", "/users"}
CallbackObjs == {[key |-> "send", value |-> "hi"],
                 [key |-> "json", value |-> "hi"]}

\* What a route can be bound to: an Express router, an application, or
\* nothing (getApp() before the application was initialised).
RouterTarget(r) == [kind |-> "router", id |-> r]
AppTarget(h) == [kind |-> IF h = NULL THEN "none" ELSE "app", id |-> h]

\* A get that always binds to the application.
activeTarget_appOnly(r, sharedHandle) == AppTarget(sharedHandle)

\* if (router) { ... router ... } else { const app = getApp(); ... app ... }
activeTarget(r, sharedHandle) ==
    IF r # 0 THEN RouterTarget(r) ELSE AppTarget(sharedHandle)

\* new RouteHandler(target, url)
RouteHandler(target, url) == [target |-> target, url |-> url]
NoHandler == [target |-> AppTarget(NULL), url |-> UNDEFINED]

\* applyCallbacks(handler, callbackObj): the GET route it binds, whose handler
\* carries out the response action the callback object names; nothing can
\* be bound without a target.
applyCallbacks(h, callbackObj) ==
    IF h.target.kind = "none"
    THEN [threw |-> UninitError, bound |-> <<>>]
    ELSE [threw |-> NoError,
          bound |-> <<[target |-> h.target, method |-> "get", url |-> h.url,
                       action |-> callbackObj]>>]

\* res.send(value) and res.json(value) answer with status 200.
Response(action) ==
    [status |-> 200, body |-> action.value, as |-> action.key]
NotFoundResponse == [status |-> 404, body |-> UNDEFINED, as |-> "none"]

\* The answer of a target to a request: the first route bound to it that
\* matches the method and the path answers.
RECURSIVE Answer(_, _, _, _)
Answer(routes, target, method, url) ==
    IF routes = <<>> THEN NotFoundResponse
    ELSE IF /\ Head(routes).target = target
            /\ Head(routes).method = method
            /\ Head(routes).url = url
    THEN Response(Head(routes).action)
    ELSE Answer(Tail(routes), target, method, url)

NoCrudCall == [op |-> "none", url |-> UNDEFINED, callbackObj |-> UNDEFINED,
               r |-> 0, routerBefore |-> 0, appBefore |-> NULL, ret |-> NoHandler,
               threw |-> NoError, first |-> FALSE]

\* A setRoute that keeps a router already set.
storeRouter_once(old, r) == IF old # 0 THEN old ELSE r

\* router = r
storeRouter(old, r) == r

crud_setRoute(r) ==
    /\ crudOps < MaxCrudOps
    /\ crudRouter' = storeRouter(crudRouter, r)
    /\ clast' = [NoCrudCall EXCEPT !.op = "setRoute", !.r = r,
                                   !.routerBefore = crudRouter,
                                   !.appBefore = sharedApp]
    /\ crudOps' = crudOps + 1
    /\ UNCHANGED <<crudHandler, bindings>>
    /\ UNCHANGED nonCrudVars

crud_get(url, callbackObj) ==
    /\ crudOps < MaxCrudOps
    /\ LET h == RouteHandler(activeTarget(crudRouter, sharedApp), url)
           e == applyCallbacks(h, callbackObj)
       IN /\ crudHandler' = h
          /\ bindings' = bindings \o e.bound
          /\ clast' = [op |-> "get", url |-> url, callbackObj |-> callbackObj,
                       r |-> 0, routerBefore |-> crudRouter, appBefore |-> sharedApp,
                       ret |-> h, threw |-> e.threw,
                       first |-> Answer(bindings, h.target, "get", url)
                                     = NotFoundResponse]
    /\ crudOps' = crudOps + 1
    /\ UNCHANGED crudRouter
    /\ UNCHANGED nonCrudVars

CrudInit ==
    /\ crudRouter = 0
    /\ crudHandler = NoHandler
    /\ bindings = <<>>
    /\ crudOps = 0
    /\ clast = NoCrudCall

CrudNext ==
    \/ \E r \in RouterArgs : crud_setRoute(r)
    \/ \E url \in Urls, callbackObj \in CallbackObjs : crud_get(url, callbackObj)

(***************************************************************************)
(* MongoDB wrapper (src/src/handler/database/MongoDB.js)                   *)
(***************************************************************************)
\* A property that was never assigned (this.client).
NoProperty == -1

\* The error objects the driver rejects with, and the TypeError of reading a
\* property of null or undefined.
DriverErrors == {"E1", "E2"}
DriverOutcomes == {"ok"} \cup DriverErrors
TypeError == "TypeError"

\* The collection method each wrapper operation calls.
DriverOp == [find |-> "find", insert |-> "insertOne", update |-> "updateOne",
             delete |-> "deleteOne"]

\* An error that is replaced by a new one on its way to the caller.
propagate_wrapped(error) == "Error: wrapped"

\* catch (error) { throw error; } and the rejection of an awaited promise: the
\* caller gets the same error object.
propagate(error) == error

\* A property is truthy: it exists and is not null.
Exists(ref) == ref # NoProperty /\ ref # NULL

NoMongoCall == [op |-> "none", driver |-> "none", threw |-> "none",
                ret |-> NoProperty, logged |-> FALSE]

\* connect(uri, options, log, textLog); the driver connects or rejects.
connect(outcome, log) ==
    /\ mongoOps < MaxMongoOps
    /\ driverCalls' = Append(driverCalls, [op |-> "connect", on |-> NULL])
    /\ IF outcome = "ok"
       THEN LET c == Len(driverCalls) + 1 IN
            /\ mongoClient' = c
            /\ mdb' = c
            /\ mlast' = [op |-> "connect", driver |-> outcome, threw |-> "none",
                         ret |-> c, logged |-> log]
       ELSE /\ UNCHANGED <<mongoClient, mdb>>
            /\ mlast' = [op |-> "connect", driver |-> outcome,
                         threw |-> propagate(outcome), ret |-> NoProperty,
                         logged |-> FALSE]
    /\ mongoOps' = mongoOps + 1
    /\ UNCHANGED mclient
    /\ UNCHANGED nonMongoVars

getClient ==
    /\ mongoOps < MaxMongoOps
    /\ mlast' = [op |-> "getClient", driver |-> "none", threw |-> "none",
                 ret |-> mclient, logged |-> FALSE]
    /\ mongoOps' = mongoOps + 1
    /\ UNCHANGED <<mongoClient, mdb, mclient, driverCalls>>
    /\ UNCHANGED nonMongoVars

\* find, insert, update, delete: this.db.collection(name), then one awaited
\* call of the collection method; insert then reads result.ops[0], which a
\* driver whose result has no ops makes a TypeError.
operation(name, outcome, hasOps) ==
    /\ mongoOps < MaxMongoOps
    /\ IF mdb = NULL
       THEN /\ UNCHANGED driverCalls
            /\ mlast' = [op |-> name, driver |-> "none", threw |-> TypeError,
                         ret |-> NoProperty, logged |-> FALSE]
       ELSE /\ driverCalls' = Append(driverCalls, [op |-> DriverOp[name], on |-> mdb])
            /\ mlast' = [op |-> name, driver |-> outcome,
                         threw |-> IF outcome # "ok" THEN propagate(outcome)
                                   ELSE IF name = "insert" /\ ~hasOps THEN TypeError
                                   ELSE "none",
                         ret |-> NoProperty, logged |-> FALSE]
    /\ mongoOps' = mongoOps + 1
    /\ UNCHANGED <<mongoClient, mdb, mclient>>
    /\ UNCHANGED nonMongoVars

\* close(force, log, textLog)
close(log) ==
    /\ mongoOps < MaxMongoOps
    /\ IF Exists(mclient)
       THEN /\ driverCalls' = Append(driverCalls, [op |-> "close", on |-> mclient])
            /\ mclient' = NULL
            /\ mlast' = [op |-> "close", driver |-> "ok", threw |-> "none",
                         ret |-> NoProperty, logged |-> log]
       ELSE /\ UNCHANGED <<driverCalls, mclient>>
            /\ mlast' = [op |-> "close", driver |-> "none", threw |-> "none",
                         ret |-> NoProperty, logged |-> FALSE]
    /\ mongoOps' = mongoOps + 1
    /\ UNCHANGED <<mongoClient, mdb>>
    /\ UNCHANGED nonMongoVars

MongoInit ==
    /\ mongoClient = NULL
    /\ mdb = NULL
    /\ mclient = NoProperty
    /\ driverCalls = <<>>
    /\ mongoOps = 0
    /\ mlast = NoMongoCall

MongoNext ==
    \/ \E outcome \in DriverOutcomes, log \in BOOLEAN : connect(outcome, log)
    \/ getClient
    \/ \E name \in DOMAIN DriverOp, outcome \in DriverOutcomes, hasOps \in BOOLEAN :
           operation(name, outcome, hasOps)
    \/ \E log \in BOOLEAN : close(log)

(***************************************************************************)
(* jwtHandler (src/src/manager/Dependencies.js)                            *)
(***************************************************************************)
\* Payloads, tokens, keys and authorization headers: absent, empty or set.
JwtValues == {UNDEFINED, "", "a", "b"}

\* !x for the values above.
Falsy_undefinedOnly(x) == x = UNDEFINED

Falsy(x) == x \in {UNDEFINED, ""}

SignRequiredError ==
    [kind |-> "Error",
     text |-> <<"Payload and secret key are required for JWT signing.">>]
VerifyRequiredError ==
    [kind |-> "Error",
     text |-> <<"Token and secret key are required for JWT verification.">>]
VerifyFailedError == [kind |-> "Error", text |-> <<"Failed to verify JWT token.">>]

\* What the library throws when it fails, and what it returns.
LibraryError == [kind |-> "JsonWebTokenError", text |-> <<"library">>]
SignedToken == "signed"
DecodedPayload == "decoded"

\* jwtSign(payload, secretKey, options): the guard, then this.jwt.sign, whose
\* error is not caught.
jwtSignEffect(payload, secretKey, libOk) ==
    IF Falsy(payload) \/ Falsy(secretKey)
    THEN [threw |-> SignRequiredError, calls |-> <<>>, ret |-> UNDEFINED]
    ELSE [threw |-> IF libOk THEN NoError ELSE LibraryError,
          calls |-> <<[fn |-> "sign", arg |-> payload, key |-> secretKey]>>,
          ret |-> IF libOk THEN SignedToken ELSE UNDEFINED]

\* jwtVerify(token, secretKey): the guard, then this.jwt.verify in a try
\* whose catch throws a new Error.
jwtVerifyEffect(token, secretKey, libOk) ==
    IF Falsy(token) \/ Falsy(secretKey)
    THEN [threw |-> VerifyRequiredError, calls |-> <<>>, ret |-> UNDEFINED]
    ELSE [threw |-> IF libOk THEN NoError ELSE VerifyFailedError,
          calls |-> <<[fn |-> "verify", arg |-> token, key |-> secretKey]>>,
          ret |-> IF libOk THEN DecodedPayload ELSE UNDEFINED]

Unauthorized(text) == [status |-> 401, body |-> [error |-> text]]

\* A middleware that goes on to next() after it answered a missing token.
jwtAuthenticateEffect_nextAfter401(authorization, secretKey, libOk, nxtThrows) ==
    IF Falsy(authorization)
    THEN [responses |-> <<Unauthorized("Unauthorized: No token provided")>>,
          nextCalls |-> 1, user |-> UNDEFINED, calls |-> <<>>]
    ELSE LET v == jwtVerifyEffect(authorization, secretKey, libOk) IN
         IF v.threw # NoError
         THEN [responses |-> <<Unauthorized("Unauthorized: Invalid token")>>,
               nextCalls |-> 0, user |-> UNDEFINED, calls |-> v.calls]
         ELSE [responses |-> IF nxtThrows
                             THEN <<Unauthorized("Unauthorized: Invalid token")>>
                             ELSE <<>>,
               nextCalls |-> 1, user |-> v.ret, calls |-> v.calls]

\* The middleware jwtAuthenticate(secretKey) returns, handling one request:
\* the responses it sends, its calls of nxt, req.user and the library calls.
\* nxt() is inside the try, so a nxt that throws ends in the catch.
jwtAuthenticateEffect(authorization, secretKey, libOk, nxtThrows) ==
    IF Falsy(authorization)
    THEN [responses |-> <<Unauthorized("Unauthorized: No token provided")>>,
          nextCalls |-> 0, user |-> UNDEFINED, calls |-> <<>>]
    ELSE LET v == jwtVerifyEffect(authorization, secretKey, libOk) IN
         IF v.threw # NoError
         THEN [responses |-> <<Unauthorized("Unauthorized: Invalid token")>>,
               nextCalls |-> 0, user |-> UNDEFINED, calls |-> v.calls]
         ELSE [responses |-> IF nxtThrows
                             THEN <<Unauthorized("Unauthorized: Invalid token")>>
                             ELSE <<>>,
               nextCalls |-> 1, user |-> v.ret, calls |-> v.calls]

NoJwtCall == [op |-> "none", arg |-> UNDEFINED, key |-> UNDEFINED, libOk |-> TRUE,
              nxtThrows |-> FALSE, threw |-> NoError, ret |-> UNDEFINED,
              responses |-> <<>>, nextCalls |-> 0, user |-> UNDEFINED]

jwtSign(payload, secretKey, libOk) ==
    /\ jwtOps < MaxJwtOps
    /\ LET e == jwtSignEffect(payload, secretKey, libOk) IN
        /\ jwtCalls' = jwtCalls \o e.calls
        /\ wlast' = [NoJwtCall EXCEPT !.op = "jwtSign", !.arg = payload,
                         !.key = secretKey, !.libOk = libOk, !.threw = e.threw,
                         !.ret = e.ret]
    /\ jwtOps' = jwtOps + 1
    /\ UNCHANGED nonJwtVars

jwtVerify(token, secretKey, libOk) ==
    /\ jwtOps < MaxJwtOps
    /\ LET e == jwtVerifyEffect(token, secretKey, libOk) IN
        /\ jwtCalls' = jwtCalls \o e.calls
        /\ wlast' = [NoJwtCall EXCEPT !.op = "jwtVerify", !.arg = token,
                         !.key = secretKey, !.libOk = libOk, !.threw = e.threw,
                         !.ret = e.ret]
    /\ jwtOps' = jwtOps + 1
    /\ UNCHANGED nonJwtVars

\* One request through the middleware of jwtAuthenticate(secretKey).
jwtAuthenticate(authorization, secretKey, libOk, nxtThrows) ==
    /\ jwtOps < MaxJwtOps
    /\ LET e == jwtAuthenticateEffect(authorization, secretKey, libOk, nxtThrows) IN
        /\ jwtCalls' = jwtCalls \o e.calls
        /\ wlast' = [NoJwtCall EXCEPT !.op = "jwtAuthenticate",
                         !.arg = authorization, !.key = secretKey,
                         !.libOk = libOk, !.nxtThrows = nxtThrows,
                         !.responses = e.responses, !.nextCalls = e.nextCalls,
                         !.user = e.user]
    /\ jwtOps' = jwtOps + 1
    /\ UNCHANGED nonJwtVars

JwtInit ==
    /\ jwtCalls = <<>>
    /\ jwtOps = 0
    /\ wlast = NoJwtCall

JwtNext ==
    \/ \E payload \in JwtValues, secretKey \in JwtValues, libOk \in BOOLEAN :
           jwtSign(payload, secretKey, libOk)
    \/ \E token \in JwtValues, secretKey \in JwtValues, libOk \in BOOLEAN :
           jwtVerify(token, secretKey, libOk)
    \/ \E authorization \in JwtValues, secretKey \in JwtValues, libOk \in BOOLEAN,
          nxtThrows \in BOOLEAN :
           jwtAuthenticate(authorization, secretKey, libOk, nxtThrows)

(***************************************************************************)
(* Template engines (src/unnamed/part_001)                                 *)
(***************************************************************************)
\* The dir argument of a helper: left out, or a directory.
DirArgs == {UNDEFINED, "pages"}

\* dir = "views"
dirOrViews(dir) == IF dir = UNDEFINED THEN "views" ELSE dir

\* getApp() of shareApp: the handle the registry holds now.
getApp == sharedApp

\* A helper that asks the registry for the application on every call.
appOf_current(captured) == getApp

\* The module variable app the helpers close over.
appOf(captured) == captured

\* let app = getApp(); if (!app) { return app } else { ...; module.exports =
\* TemplateEngines }: the module's state after its first load.
loadResult(current) == [app |-> current, exports |-> current # NULL]

\* app.set(key, value) and app.engine(ext, fn) as entries of the call log.
appSet(theApp, key, value) == [app |-> theApp, fn |-> "set", key |-> key, value |-> value]
appEngine(theApp, ext, value) == [app |-> theApp, fn |-> "engine", key |-> ext, value |-> value]

\* setEjs(dir = "views"): $install('ejs'), then the two app.set calls.
setEjsEffect(captured, dir, inst) ==
    LET r == install("ejs", inst) IN
    IF ~r.ok THEN [threw |-> r.err, calls |-> <<>>]
    ELSE [threw |-> NoError,
          calls |-> <<appSet(appOf(captured), "view engine", "ejs"),
                      appSet(appOf(captured), "views", dirOrViews(dir))>>]

\* setHBS(hbs, dir, options = {}): dir has no default.
setHBSEffect(captured, dir) ==
    [threw |-> NoError,
     calls |-> <<appSet(appOf(captured), "view engine", "hbs"),
                 appSet(appOf(captured), "views", dir),
                 appEngine(appOf(captured), ".hbs", "hbs(combinedOptions)")>>]

\* setPug(dir = "views")
setPugEffect(captured, dir) ==
    [threw |-> NoError,
     calls |-> <<appSet(appOf(captured), "view engine", "pug"),
                 appSet(appOf(captured), "views", dirOrViews(dir))>>]

NoTplCall == [op |-> "none", dir |-> UNDEFINED, registry |-> NULL, first |-> FALSE,
              threw |-> NoError, added |-> 0]

\* require of the module: its body runs on the first load only.
requireTemplateEngines ==
    /\ tplOps < MaxTplOps
    /\ IF tplLoaded
       THEN UNCHANGED <<tplLoaded, tplApp, tplExports>>
       ELSE LET r == loadResult(getApp) IN
            /\ tplLoaded' = TRUE
            /\ tplApp' = r.app
            /\ tplExports' = r.exports
    /\ tlast' = [NoTplCall EXCEPT !.op = "require", !.registry = getApp,
                                  !.first = ~tplLoaded]
    /\ tplOps' = tplOps + 1
    /\ UNCHANGED appSettings
    /\ UNCHANGED nonTplVars

\* A helper of an exported TemplateEngines instance is called.
helper(name, dir, e) ==
    /\ tplExports
    /\ tplOps < MaxTplOps
    /\ appSettings' = appSettings \o e.calls
    /\ tlast' = [NoTplCall EXCEPT !.op = name, !.dir = dir, !.registry = getApp,
                                  !.threw = e.threw, !.added = Len(e.calls)]
    /\ tplOps' = tplOps + 1
    /\ UNCHANGED <<tplLoaded, tplApp, tplExports>>
    /\ UNCHANGED nonTplVars

setEjs(dir) == helper("setEjs", dir, setEjsEffect(tplApp, dir, installed))

setHBS(dir) == helper("setHBS", dir, setHBSEffect(tplApp, dir))

setPug(dir) == helper("setPug", dir, setPugEffect(tplApp, dir))

TplInit ==
    /\ tplLoaded = FALSE
    /\ tplApp = NULL
    /\ tplExports = FALSE
    /\ appSettings = <<>>
    /\ tplOps = 0
    /\ tlast = NoTplCall

TplNext ==
    \/ requireTemplateEngines
    \/ \E dir \in DirArgs : setEjs(dir)
    \/ \E dir \in DirArgs : setHBS(dir)
    \/ \E dir \in DirArgs : setPug(dir)

(***************************************************************************)
(* Specifications                                                          *)
(***************************************************************************)
Init == AppInit /\ RouteInit /\ PkgInit /\ ReqInit /\ JsonInit /\ CrudInit /\ MongoInit /\ JwtInit /\ TplInit
Next == AppNext \/ RouteNext \/ PkgNext \/ ReqNext \/ JsonNext \/ CrudNext \/ MongoNext \/ JwtNext \/ TplNext
Spec == Init /\ [][Next]_vars

\* AppManager alone, and RouteManager alone.
SpecApp == Init /\ [][AppNext]_vars
SpecRoute == Init /\ [][RouteNext]_vars

\* The package managers, with the application handle of AppManager.initApp.
PkgAppNext == PkgNext \/ initApp
SpecPkg == Init /\ [][PkgAppNext]_vars

\* One ReqEnhancer and the request it wraps.
SpecReq == Init /\ [][ReqNext]_vars

\* The JSON senders of successive responses.
SpecJson == Init /\ [][JsonNext]_vars

\* The CRUD get helper, with the application handle of AppManager.initApp.
CrudAppNext == CrudNext \/ initApp
SpecCrud == Init /\ [][CrudAppNext]_vars

\* One MongoDB wrapper and its driver.
SpecMongo == Init /\ [][MongoNext]_vars

\* One jwtHandler, its library and the requests through its middleware.
SpecJwt == Init /\ [][JwtNext]_vars

\* The template-engine module, the registry and the ejs package.
TplAppNext == TplNext \/ initApp \/ npmInstall("ejs")
SpecTpl == Init /\ [][TplAppNext]_vars

(***************************************************************************)
(* Derived views of the RouteManager state                                 *)
(***************************************************************************)
\* The layers the last call added to its node's router.
NewLayers ==
    LET layers == router[rlast.node] IN
    SubSeq(layers, Len(layers) - rlast.added + 1, Len(layers))

\* The last call was a verb method that returned (the router took its calls).
VerbReturned == rlast.op \in Verbs /\ rlast.threw = "none"

\* The last call was a verb method on a node whose base path is set.
VerbRegistered == VerbReturned /\ p[rlast.node] \in Paths

Count(x, seq) == Cardinality({i \in 1..Len(seq) : seq[i] = x})

\* The prefixes of the group() calls enclosing node n, outermost first.
RECURSIVE Enclosing(_)
Enclosing(n) ==
    IF parentOf[n].node = 0 THEN <<>>
    ELSE Append(Enclosing(parentOf[n].node), parentOf[n].mainRoute)

\* The node constructed with `new` that node n was grouped under.
RECURSIVE RootOf(_)
RootOf(n) == IF parentOf[n].node = 0 THEN n ELSE RootOf(parentOf[n].node)

\* Node n and all its ancestors have had their group() call return.
RECURSIVE Returned(_)
Returned(n) ==
    /\ \A i \in 1..Len(stack) : stack[i].subRouteManager # n
    /\ parentOf[n].node # 0 => Returned(parentOf[n].node)

\* Express dispatch through mounted routers: the routes a request entering
\* node n's router can reach, each with the path segments it is reached at
\* (a router mounted with use(prefix, child) serves child's routes below prefix).
RECURSIVE Reachable(_)
Reachable(n) ==
    UNION { LET layer == router[n][i] IN
            IF layer.kind = "route"
            THEN {<<layer.method, <<layer.path>>, layer.handlers>>}
            ELSE {<<r[1], <<layer.path>> \o r[2], r[3]>> : r \in Reachable(layer.child)}
          : i \in 1..Len(router[n]) }

\* Every mount layer that mounts node c, as <<node, index>>.
MountsOf(c) ==
    UNION { { <<n, i>> : i \in { j \in 1..Len(router[n]) :
                                   /\ router[n][j].kind = "mount"
                                   /\ router[n][j].child = c } }
          : n \in 1..nodeCount }

(***************************************************************************)
(* Claims                                                                  *)
(***************************************************************************)

\* C1: listen in a state where initApp has not been called raises an error
\* with the message "Express app has not been initialized yet." and does not
\* invoke the underlying server listen.
C1_ListenBeforeInitThrows ==
    (alast.op = "listen" /\ ~alast.wasRunning) =>
        /\ alast.threw = NotInitializedMsg
        /\ alast.listened = 0

\* C2: a verb call registers, under the current base path, the middleware
\* chain followed by the supplied handlers (the supplied handlers as given
\* when the chain is empty).
C2_ChainPrependedByEveryVerb ==
    VerbRegistered =>
        LET n == rlast.node IN
        /\ rlast.added >= 1
        /\ NewLayers[1].path = p[n]
        /\ NewLayers[1].method = RouterMethod(rlast.op)
        /\ NewLayers[1].handlers = middlewares[n] \o rlast.handlers

\* C3: once m1 and then m2 were added with use(), every verb registration
\* yields a handler order with m1 before m2 and both before the supplied
\* handlers.
C3_UseOrderKeptByEveryVerb ==
    VerbRegistered =>
        LET chain == middlewares[rlast.node]
            registered == NewLayers[1].handlers
            firstOwn == Len(registered) - Len(rlast.handlers) + 1
        IN \A i, j \in 1..Len(chain) :
               (i < j /\ chain[i] = "m1" /\ chain[j] = "m2") =>
                   \E a, b \in 1..Len(registered) :
                       /\ a < b /\ b < firstOwn
                       /\ registered[a] = "m1" /\ registered[b] = "m2"

C4_Expected(n, op, handlers) ==
    IF op = "get" /\ middlewares[n] # <<>>
    THEN <<Route("get", p[n], middlewares[n] \o handlers),
           Route("get", p[n], handlers)>>
    ELSE <<Route(RouterMethod(op), p[n], handlers)>>

C5_ChainNeverDuplicated ==
    [][(ops' = ops + 1 /\ rlast'.op \in Verbs /\ rlast'.threw = "none"
            /\ p[rlast'.node] \in Paths) =>
        LET n == rlast'.node
            registered == router'[n][Len(router[n]) + 1].handlers
        IN /\ middlewares' = middlewares
           /\ p' = p
           /\ hasMiddleware' = hasMiddleware
           /\ \A m \in Middlewares :
                  Count(m, registered) = Count(m, middlewares[n])]_vars

\* C6: no route is registered with an unset base path: a verb call reaches
\* the router only after setRoute was called on the node.
C6_NoRouteWithUnsetBasePath ==
    /\ rlast.op \in Verbs => p[rlast.node] # UNDEFINED
    /\ \A n \in 1..nodeCount : \A i \in 1..Len(router[n]) :
           router[n][i].kind = "route" => router[n][i].path # UNDEFINED

\* C7: group(prefix, builder) constructs a new child, distinct from its parent
\* and from every earlier node, calls the builder once with it, mounts the
\* child's router under prefix on the parent's router only after the builder
\* returned, and a route registered at childPath in a builder is reachable at
\* the enclosing prefixes, outermost first, followed by childPath.
C7_GroupMountsChildUnderPrefix ==
    /\ rlast.op = "group_call" =>
           /\ rlast.child = nodeCount
           /\ rlast.child # rlast.node
           /\ stack[Len(stack)].subRouteManager = rlast.child
           /\ router[rlast.child] = <<>>
           /\ MountsOf(rlast.child) = {}
    /\ \A c \in 1..nodeCount :
           IF parentOf[c].node = 0
           THEN invoked[c] = 0 /\ MountsOf(c) = {}
           ELSE /\ parentOf[c].node < c
                /\ invoked[c] = 1
                /\ IF \E i \in 1..Len(stack) : stack[i].subRouteManager = c
                   THEN MountsOf(c) = {}
                   ELSE /\ Cardinality(MountsOf(c)) = 1
                        /\ \A m \in MountsOf(c) :
                               /\ m[1] = parentOf[c].node
                               /\ router[m[1]][m[2]].path = parentOf[c].mainRoute
    /\ \A n \in 1..nodeCount : \A i \in 1..Len(router[n]) :
           (Returned(n) /\ router[n][i].kind = "route") =>
               <<router[n][i].method, Append(Enclosing(n), router[n][i].path),
                 router[n][i].handlers>> \in Reachable(RootOf(n))

C7_Witness ==
    /\ stack = <<>>
    /\ \E n \in 1..nodeCount :
           /\ Len(Enclosing(n)) = 2
           /\ \E i \in 1..Len(router[n]) :
                  /\ router[n][i].kind = "route"
                  /\ router[n][i].path \in Paths
                  /\ <<router[n][i].method,
                       Append(Enclosing(n), router[n][i].path),
                       router[n][i].handlers>> \in Reachable(RootOf(n))

\* C8: use(m) appends m to the end of the middleware list, also when m is
\* already in it, returns the node itself and leaves the base path and the
\* router's layers unchanged.
C8_UseAppends ==
    [][(ops' = ops + 1 /\ rlast'.op = "use") =>
        LET n == rlast'.node IN
        /\ middlewares' = [middlewares EXCEPT ![n] = Append(@, rlast'.mw)]
        /\ rlast'.ret = n
        /\ p' = p
        /\ router' = router]_vars

C8_Witness ==
    /\ rlast.op = "use"
    /\ Len(middlewares[rlast.node]) = 2
    /\ middlewares[rlast.node][1] = rlast.mw
    /\ middlewares[rlast.node][2] = rlast.mw

\* C9: setRoute(path) overwrites the base path with its argument and leaves
\* the middleware list and the layers already registered unchanged; a verb
\* call registers under the base path the latest setRoute left.
C9_SetRouteLastWins ==
    [][/\ (ops' = ops + 1 /\ rlast'.op = "setRoute") =>
            /\ p' = [p EXCEPT ![rlast'.node] = rlast'.path]
            /\ rlast'.ret = rlast'.node
            /\ middlewares' = middlewares
            /\ hasMiddleware' = hasMiddleware
            /\ router' = router
       /\ (ops' = ops + 1 /\ rlast'.op \in Verbs) =>
            \A i \in (Len(router[rlast'.node]) + 1)..Len(router'[rlast'.node]) :
                router'[rlast'.node][i].path = p[rlast'.node]]_vars

C9_Witness ==
    /\ rlast.op \in Verbs
    /\ rlast.threw = "none"
    /\ Len(router[rlast.node]) = 2
    /\ router[rlast.node][1].path = "/a"
    /\ router[rlast.node][2].path = "/b"
    /\ p[rlast.node] = "/b"

\* C10: initApp creates an application handle, stores it as the manager's
\* app, hands the same handle to the shared registry, sets the running flag
\* and returns that handle.
C10_InitAppStoresPublishesReturns ==
    alast.op = "initApp" =>
        /\ app # NULL
        /\ sharedApp = app
        /\ runApp = TRUE
        /\ alast.ret = app

C10_Witness ==
    /\ alast.op = "initApp"
    /\ alast.wasRunning
    /\ app = 2
    /\ sharedApp = 2

\* C11: a second initApp returns a handle different from the one held before
\* and from every handle created earlier, the manager's app and the shared
\* registry then hold that second handle, and a later listen passes the
\* handle currently held, never an overwritten one, to the underlying listen.
C11_SecondInitAppOverwrites ==
    [][/\ (created' = created + 1 /\ alast'.op = "initApp") =>
            /\ alast'.ret \notin 0..created
            /\ alast'.ret # app
            /\ app' = alast'.ret
            /\ sharedApp' = alast'.ret
       /\ alast'.op = "listen" =>
            /\ app' = app
            /\ sharedApp' = sharedApp
            /\ \A i \in (Len(listenCalls) + 1)..Len(listenCalls') :
                   /\ listenCalls'[i].app = app
                   /\ listenCalls'[i].app = created]_vars

C11_Witness ==
    /\ alast.op = "listen"
    /\ alast.listened = 1
    /\ created = 2
    /\ app = 2
    /\ sharedApp = 2
    /\ listenCalls[Len(listenCalls)].app = 2

\* C12: launch, from a state with or without an application, creates a new
\* handle, makes exactly one call to the underlying listen, on that handle
\* and on the port given (3000 when the port is left out), leaves the
\* running flag true and returns the handle it listened on.
C12_LaunchInitsThenListensOnce ==
    [][(created' = created + 1 /\ alast'.op = "launch") =>
        /\ app' \notin 0..created
        /\ Len(listenCalls') = Len(listenCalls) + 1
        /\ SubSeq(listenCalls', 1, Len(listenCalls)) = listenCalls
        /\ listenCalls'[Len(listenCalls')].app = app'
        /\ listenCalls'[Len(listenCalls')].port =
               (IF alast'.portArg = -1 THEN DefaultPort ELSE alast'.portArg)
        /\ runApp' = TRUE
        /\ sharedApp' = app'
        /\ alast'.ret = app'
        /\ alast'.threw = "none"]_vars

C12_Witness ==
    /\ alast.op = "launch"
    /\ alast.wasRunning
    /\ alast.portArg = -1
    /\ app = 2
    /\ alast.ret = 2
    /\ Len(listenCalls) = 2
    /\ listenCalls[1].app = 1
    /\ listenCalls[2].app = 2
    /\ listenCalls[2].port = DefaultPort

\* The capability requests C13 is about.
C13_Requests ==
    {"dh_session", "muter", "csrf", "cors", "bodyParser", "flash",
     "dh_connectMongoDbSession", "pm_connectMongoDbSession"}

\* C13 as stated: a capability request whose package cannot be resolved
\* throws an error that names the package (a PackageInitializationError from
\* PackageManager.connectMongoDbSession, ensurePackage's Error otherwise) and
\* registers no middleware.
C13_MissingPackageRaisesNamedError ==
    [][(pkgOps' = pkgOps + 1 /\ plast'.op \in C13_Requests
            /\ plast'.pkg \notin installed) =>
        /\ plast'.threw.kind =
               (IF plast'.op = "pm_connectMongoDbSession"
                THEN "PackageInitializationError" ELSE "Error")
        /\ Names(plast'.threw, plast'.pkg)
        /\ plast'.threw # UninitError
        /\ dhUse' = dhUse
        /\ shUse' = shUse]_vars

\* C13, amended: as C13, except that DependencyHandler.session without an
\* application throws the not-initialized error instead, and that
\* PackageManager.connectMongoDbSession throws its PackageInitializationError
\* only when express-session resolves: otherwise the resolver's error for
\* express-session leaves the method unwrapped. No request registers anything.
C13_MissingPackageRaisesNamedErrorWhenReached ==
    [][(pkgOps' = pkgOps + 1 /\ plast'.op \in C13_Requests
            /\ plast'.pkg \notin installed) =>
        /\ dhUse' = dhUse
        /\ shUse' = shUse
        /\ IF plast'.op = "dh_session" /\ dhApp = NULL
           THEN plast'.threw = UninitError
           ELSE IF plast'.op = "pm_connectMongoDbSession"
           THEN IF "express-session" \in installed
                THEN /\ plast'.threw.kind = "PackageInitializationError"
                     /\ Names(plast'.threw, plast'.pkg)
                ELSE /\ plast'.threw.kind # "PackageInitializationError"
                     /\ plast'.threw # NoError
                     /\ Names(plast'.threw, "express-session")
           ELSE /\ plast'.threw.kind = "Error"
                /\ Names(plast'.threw, plast'.pkg)]_vars

C13_Witness ==
    /\ plast.op = "pm_connectMongoDbSession"
    /\ "express-session" \in installed
    /\ "connect-mongodb-session" \notin installed
    /\ plast.threw.kind = "PackageInitializationError"
    /\ Names(plast.threw, "connect-mongodb-session")
    /\ shUse = <<>>

\* C14: with an application handle in the shared registry and
\* express-session resolvable, PackageManager.session registers the session
\* middleware on that handle, whatever else the process did before.
C14_SessionRegistersOnActiveApp ==
    [][(pkgOps' = pkgOps + 1 /\ plast'.op = "pm_session"
            /\ sharedApp # NULL /\ "express-session" \in installed) =>
        shUse' = Append(shUse, [app |-> sharedApp, mw |-> "express-session"])]_vars

\* C15: DependencyHandler.session with this.app unset throws the
\* not-initialized error, has not tried to resolve express-session, and
\* registers nothing.
C15_SessionWithoutAppThrowsFirst ==
    [][(pkgOps' = pkgOps + 1 /\ plast'.op = "dh_session" /\ dhApp = NULL) =>
        /\ plast'.threw = [kind |-> "Error", text |-> <<NotInitializedMsg>>]
        /\ plast'.resolves = <<>>
        /\ dhUse' = dhUse
        /\ shUse' = shUse]_vars

C15_Witness ==
    /\ plast.op = "dh_session"
    /\ ~plast.hadApp
    /\ ~plast.resolvable
    /\ "multer" \in installed
    /\ plast.threw.text = <<NotInitializedMsg>>

\* C16: for every request and every key k, if hasQueryParam(k) is false then
\* getQueryParam(k) is undefined, as a fact about the request and about the
\* value the last getQueryParam call returned.
C16_HasFalseImpliesGetUndefined ==
    /\ \A k \in ArgsOf("getQueryParam") :
           (req # NoRequest /\ ~hasQueryParam(req, k)) =>
               getQueryParam(req, k) = UNDEFINED
    /\ (qlast.fn = "getQueryParam" /\ ~dirty
            /\ ~hasQueryParam(req, qlast.arg)) => qlast.result = UNDEFINED

C16_Witness ==
    /\ qlast.fn = "getQueryParam"
    /\ qlast.arg = "constructor"
    /\ ~dirty
    /\ ~req.inherits
    /\ DOMAIN req.query = {"a"}
    /\ ~hasQueryParam(req, "constructor")
    /\ qlast.result = UNDEFINED

\* Two names are equal ignoring case.
C17_EqualIgnoringCase(a, b) == toLowerCase[a] = toLowerCase[b]

\* C17: hasHeaderIgnoreCase(h) is true exactly when a header key equals h
\* ignoring case, is the same for every case variant of h, and
\* getHeaderIgnoreCase(h) is the value of such a key when it is true and
\* undefined when it is false.
C17_HeaderLookupIgnoresCase ==
    \A h \in HeaderArgs : req # NoRequest =>
        /\ hasHeaderIgnoreCase(req, h) <=>
               \E i \in 1..Len(req.headers) :
                   C17_EqualIgnoringCase(req.headers[i].key, h)
        /\ \A g \in HeaderArgs :
               C17_EqualIgnoringCase(g, h) =>
                   (hasHeaderIgnoreCase(req, g) <=> hasHeaderIgnoreCase(req, h))
        /\ hasHeaderIgnoreCase(req, h) =>
               \E i \in 1..Len(req.headers) :
                   /\ C17_EqualIgnoringCase(req.headers[i].key, h)
                   /\ getHeaderIgnoreCase(req, h) = req.headers[i].value
        /\ ~hasHeaderIgnoreCase(req, h) =>
               getHeaderIgnoreCase(req, h) = UNDEFINED

\* C18: a lookup leaves the request unchanged and returns what the request
\* holds at the time of the call: the same as the call before it with the
\* same argument when the request was not changed in between, and the value
\* of the changed request when it was.
C18_LookupsReadOnlyAndUncached ==
    [][(dirty' = FALSE /\ qlast'.fn \in Lookups) =>
        /\ req' = req
        /\ qlast'.result = Apply(qlast'.fn, qlast'.arg, req)
        /\ (qlast.fn = qlast'.fn /\ qlast.arg = qlast'.arg /\ ~dirty) =>
               qlast'.result = qlast.result]_vars

C18_Witness ==
    /\ qlast.fn = "getHeaderIgnoreCase"
    /\ qlast.arg = "X-ID"
    /\ qlast.result = "v2"
    /\ ~dirty
    /\ Len(req.headers) = 2
    /\ req.headers[1] = [key |-> "X-Id", value |-> "v1"]
    /\ req.headers[2] = [key |-> "x-id", value |-> "v2"]

\* The status code and the body of the table of external interfaces.
C19_Table(call) ==
    CASE call.method = "success" ->
            [status |-> 200,
             body |-> IF call.data = UNDEFINED
                      THEN [message |-> call.message, data |-> ABSENT,
                            object |-> ABSENT]
                      ELSE [message |-> call.message, data |-> call.data,
                            object |-> ABSENT]]
      [] call.method \in {"created", "updated", "deleted", "validationFailed"} ->
            [status |-> CASE call.method = "created" -> 201
                          [] call.method = "validationFailed" -> 400
                          [] OTHER -> 200,
             body |-> [message |-> ABSENT, data |-> ABSENT, object |-> call.data]]
      [] call.method = "rateLimitExceeded" ->
            [status |-> 429,
             body |-> [message |-> RateLimitMessage, data |-> ABSENT,
                       object |-> ABSENT]]
      [] OTHER ->
            [status |-> CASE call.method = "badRequest" -> 400
                          [] call.method = "authRequired" -> 401
                          [] call.method = "forbidden" -> 403
                          [] call.method = "notFound" -> 404
                          [] call.method = "internalServerError" -> 500
                          [] call.method = "serviceUnavailable" -> 503,
             body |-> [message |-> IF call.message = UNDEFINED
                                   THEN DefaultMessage[call.method]
                                   ELSE call.message,
                       data |-> ABSENT, object |-> ABSENT]]

\* C19: each JSON-sender call sends exactly one response, with the status
\* code and the body of the table: success 200 {message} or {message, data};
\* created 201, updated 200, deleted 200 with the object; validationFailed
\* 400 with the errors map; badRequest 400, authRequired 401, forbidden 403,
\* notFound 404, internalServerError 500, serviceUnavailable 503 with
\* {message}; rateLimitExceeded 429 with its fixed message.
C19_JsonSenderStatusAndBody ==
    [][jlast'.method # "none" =>
        /\ Len(sent') = Len(sent) + 1
        /\ SubSeq(sent', 1, Len(sent)) = sent
        /\ sent'[Len(sent')] = C19_Table(jlast')]_vars

C19_Witness ==
    /\ Len(sent) = 2
    /\ jlast.method = "notFound"
    /\ jlast.message = "Resource not found"
    /\ sent[2] = [status |-> 404,
                  body |-> [message |-> "Resource not found", data |-> ABSENT,
                            object |-> ABSENT]]
    /\ sent[1].status = 201

\* C20: a get("/", {send: "hi"}) call made with an active target (the router
\* given to setRoute if one is set, otherwise the initialised application)
\* binds a GET "/" route to that target and returns the handler for it; when
\* it is the first GET "/" route of the target, the target answers a GET
\* request to "/" with status 200 and body "hi".
C20_GetSendHiAnswers200Hi ==
    (/\ clast.op = "get" /\ clast.url = "/"
     /\ clast.callbackObj = [key |-> "send", value |-> "hi"]
     /\ (clast.routerBefore # 0 \/ clast.appBefore # NULL)) =>
        LET target == IF clast.routerBefore # 0
                      THEN [kind |-> "router", id |-> clast.routerBefore]
                      ELSE [kind |-> "app", id |-> clast.appBefore]
        IN /\ clast.threw = NoError
           /\ clast.ret = [target |-> target, url |-> "/"]
           /\ bindings # <<>>
           /\ bindings[Len(bindings)] =
                  [target |-> target, method |-> "get", url |-> "/",
                   action |-> clast.callbackObj]
           /\ clast.first =>
                  /\ Answer(bindings, target, "get", "/").status = 200
                  /\ Answer(bindings, target, "get", "/").body = "hi"
                  /\ Answer(bindings, target, "get", "/").as = "send"

C20_Witness ==
    /\ clast.op = "get"
    /\ clast.url = "/"
    /\ clast.callbackObj = [key |-> "send", value |-> "hi"]
    /\ clast.routerBefore = 0
    /\ clast.appBefore = 1
    /\ clast.first
    /\ Len(bindings) = 2
    /\ Answer(bindings, [kind |-> "app", id |-> 1], "get", "/") =
           [status |-> 200, body |-> "hi", as |-> "send"]

\* C21 as stated: every find, insert, update or delete call makes exactly one
\* call of the corresponding driver operation; a failure of connect or of a
\* driver call reaches the caller as the same error; a failed connect leaves
\* the stored client and db as they were.
C21_OneDriverCallErrorsPassThrough ==
    [][/\ (mongoOps' = mongoOps + 1 /\ mlast'.op \in DOMAIN DriverOp) =>
            /\ Len(driverCalls') = Len(driverCalls) + 1
            /\ SubSeq(driverCalls', 1, Len(driverCalls)) = driverCalls
            /\ driverCalls'[Len(driverCalls')].op = DriverOp[mlast'.op]
            /\ mlast'.driver \in DriverErrors => mlast'.threw = mlast'.driver
       /\ (mongoOps' = mongoOps + 1 /\ mlast'.op = "connect") =>
            /\ Len(driverCalls') = Len(driverCalls) + 1
            /\ mlast'.driver \in DriverErrors =>
                   /\ mlast'.threw = mlast'.driver
                   /\ mongoClient' = mongoClient
                   /\ mdb' = mdb]_vars

\* C21, amended: as C21 for a wrapper whose db is set by a successful
\* connect; while db is null an operation makes no driver call and fails
\* with a TypeError.
C21_OneDriverCallOnceConnected ==
    [][/\ (mongoOps' = mongoOps + 1 /\ mlast'.op \in DOMAIN DriverOp) =>
            IF mdb # NULL
            THEN /\ Len(driverCalls') = Len(driverCalls) + 1
                 /\ SubSeq(driverCalls', 1, Len(driverCalls)) = driverCalls
                 /\ driverCalls'[Len(driverCalls')] =
                        [op |-> DriverOp[mlast'.op], on |-> mdb]
                 /\ mlast'.driver \in DriverErrors =>
                        mlast'.threw = mlast'.driver
            ELSE /\ driverCalls' = driverCalls
                 /\ mlast'.threw = "TypeError"
       /\ (mongoOps' = mongoOps + 1 /\ mlast'.op = "connect") =>
            /\ Len(driverCalls') = Len(driverCalls) + 1
            /\ driverCalls'[Len(driverCalls')].op = "connect"
            /\ mlast'.driver \in DriverErrors =>
                   /\ mlast'.threw = mlast'.driver
                   /\ mongoClient' = mongoClient
                   /\ mdb' = mdb]_vars

C21_Witness ==
    /\ mlast.op = "update"
    /\ mlast.driver = "E2"
    /\ mlast.threw = "E2"
    /\ mdb = 1
    /\ Len(driverCalls) = 3
    /\ driverCalls[2].op = "connect"
    /\ driverCalls[3] = [op |-> "updateOne", on |-> 1]

\* C22: after a successful connect getClient returns the connected client;
\* close() with a connected client calls close on it once and clears it, so
\* that a second close() does nothing; close() before any connect does
\* nothing.
C22_ConnectGetClientCloseLifecycle ==
    [][/\ (mongoOps' = mongoOps + 1 /\ mlast'.op = "getClient"
               /\ mongoClient # NULL) => mlast'.ret = mongoClient
       /\ (mongoOps' = mongoOps + 1 /\ mlast'.op = "close") =>
            IF mongoClient # NULL /\ mclient # NULL
            THEN /\ driverCalls' =
                        Append(driverCalls, [op |-> "close", on |-> mongoClient])
                 /\ mclient' = NULL
            ELSE driverCalls' = driverCalls]_vars

\* C23: on every constructed RouteManager node the has-middleware flag is
\* truthy exactly when the middleware list is non-empty; a freshly
\* constructed node has an empty list and a falsy (undefined) flag.
C23_FlagIffMiddlewares ==
    /\ \A n \in 1..nodeCount : Truthy(hasMiddleware[n]) <=> middlewares[n] # <<>>
    /\ (rlast.op \in {"new", "group_call"}) =>
           LET n == IF rlast.op = "new" THEN rlast.node ELSE rlast.child IN
           /\ middlewares[n] = <<>>
           /\ hasMiddleware[n] = UNDEFINED

C23_Witness ==
    /\ nodeCount = 2
    /\ rlast.op = "new"
    /\ rlast.node = 2
    /\ Len(middlewares[1]) = 2
    /\ Truthy(hasMiddleware[1])
    /\ ~Truthy(hasMiddleware[2])

\* C26: group and attachTo leave the calling node's middleware list, flag and
\* base path unchanged, and the child group constructs starts with an empty
\* middleware list and no base path, whatever the caller holds.
C26_GroupAndAttachLeaveNodeAlone ==
    [][(rlast' # rlast /\ rlast'.op \in {"group_call", "group_return", "attachTo"}) =>
          /\ \A n \in 1..nodeCount :
                 /\ middlewares'[n] = middlewares[n]
                 /\ hasMiddleware'[n] = hasMiddleware[n]
                 /\ p'[n] = p[n]
          /\ rlast'.op = "group_call" =>
                 /\ rlast'.child = nodeCount + 1
                 /\ middlewares'[rlast'.child] = <<>>
                 /\ hasMiddleware'[rlast'.child] = UNDEFINED
                 /\ p'[rlast'.child] = UNDEFINED]_vars

C26_Witness ==
    /\ rlast.op = "group_call"
    /\ middlewares[rlast.node] # <<>>
    /\ Truthy(hasMiddleware[rlast.node])
    /\ p[rlast.node] # UNDEFINED
    /\ middlewares[rlast.child] = <<>>
    /\ p[rlast.child] = UNDEFINED
    /\ attached = <<[app |-> 1, node |-> rlast.node]>>

\* C27: under initApp, listen and launch the running flag is true exactly
\* when the stored handle is non-null, the flag never returns to false, and
\* every listen call is made on the handle initApp returned most recently.
C27_RunningIffHandle ==
    [][/\ runApp <=> app # NULL
       /\ runApp' <=> app' # NULL
       /\ runApp => runApp'
       /\ Len(listenCalls') > Len(listenCalls) =>
              /\ Len(listenCalls') = Len(listenCalls) + 1
              /\ app' = created'
              /\ listenCalls'[Len(listenCalls')].app = created']_vars

C27_Witness ==
    /\ alast.op = "listen"
    /\ alast.listened = 1
    /\ created = 2
    /\ runApp
    /\ app = 2
    /\ Len(listenCalls) = 2
    /\ listenCalls[1].app = 1
    /\ listenCalls[2].app = 2

C29_StickyRouterTarget ==
    [][/\ crudRouter' # crudRouter =>
              (crudOps' = crudOps + 1 /\ clast'.op = "setRoute")
       /\ (crudOps' = crudOps + 1 /\ clast'.op = "setRoute") =>
              /\ crudRouter' = clast'.r
              /\ bindings' = bindings
       /\ (crudOps' = crudOps + 1 /\ clast'.op = "get") =>
              /\ clast'.ret.target =
                     IF crudRouter # 0
                     THEN [kind |-> "router", id |-> crudRouter]
                     ELSE [kind |-> IF sharedApp = NULL THEN "none" ELSE "app",
                           id |-> sharedApp]
              /\ clast'.ret.url = clast'.url
              /\ crudHandler' = clast'.ret
              /\ IF clast'.threw = NoError
                 THEN bindings' = Append(bindings,
                          [target |-> clast'.ret.target, method |-> "get",
                           url |-> clast'.ret.url, action |-> clast'.callbackObj])
                 ELSE bindings' = bindings]_vars

C29_Witness ==
    /\ clast.op = "get"
    /\ crudOps = 4
    /\ crudRouter = 0
    /\ sharedApp = 2
    /\ Len(bindings) = 2
    /\ bindings[1].target = [kind |-> "router", id |-> 2]
    /\ bindings[2].target = [kind |-> "app", id |-> 2]
    /\ clast.ret.target = [kind |-> "app", id |-> 2]

C25_GuardsBeforeLibrary ==
    [][(jwtOps' = jwtOps + 1 /\ wlast'.op \in {"jwtSign", "jwtVerify"}) =>
          IF wlast'.arg \in {UNDEFINED, ""} \/ wlast'.key \in {UNDEFINED, ""}
          THEN /\ wlast'.threw.kind = "Error"
               /\ wlast'.threw.text =
                      IF wlast'.op = "jwtSign"
                      THEN <<"Payload and secret key are required for JWT signing.">>
                      ELSE <<"Token and secret key are required for JWT verification.">>
               /\ jwtCalls' = jwtCalls
               /\ wlast'.ret = UNDEFINED
          ELSE /\ Len(jwtCalls') = Len(jwtCalls) + 1
               /\ (wlast'.op = "jwtVerify" /\ ~wlast'.libOk) =>
                      /\ wlast'.threw = [kind |-> "Error",
                                         text |-> <<"Failed to verify JWT token.">>]
                      /\ wlast'.ret = UNDEFINED]_vars

C25_Witness ==
    /\ wlast.op = "jwtVerify"
    /\ wlast.arg = "a"
    /\ wlast.key = "b"
    /\ ~wlast.libOk
    /\ wlast.threw = VerifyFailedError
    /\ jwtOps = 2
    /\ jwtCalls = <<[fn |-> "verify", arg |-> "a", key |-> "b"]>>

\* C30: the template-engine helpers configure the application handle the
\* registry held when their module was first loaded, also after initApp has
\* replaced the handle; a module loaded with no handle exports no helpers.
C30_HelpersUseHandleAtLoad ==
    [][/\ (tplOps' = tplOps + 1 /\ tlast'.op = "require") =>
              IF tplLoaded
              THEN /\ tplApp' = tplApp
                   /\ tplExports' = tplExports
              ELSE /\ tplApp' = sharedApp
                   /\ tplExports' = (sharedApp # NULL)
       /\ ~(tplOps' = tplOps + 1 /\ tlast'.op = "require") =>
              /\ tplApp' = tplApp
              /\ tplExports' = tplExports
       /\ (tplOps' = tplOps + 1 /\ tlast'.op \in {"setEjs", "setHBS", "setPug"}) =>
              /\ tplExports
              /\ tplApp # NULL
              /\ SubSeq(appSettings', 1, Len(appSettings)) = appSettings
              /\ \A i \in Len(appSettings) + 1 .. Len(appSettings') :
                     appSettings'[i].app = tplApp
              /\ tlast'.threw = NoError => Len(appSettings') > Len(appSettings)
       /\ ~tplExports' => appSettings' = <<>>]_vars

C30_Witness ==
    /\ tlast.op = "setPug"
    /\ tplApp = 1
    /\ sharedApp = 2
    /\ Len(appSettings) = 2
    /\ appSettings[1] = [app |-> 1, fn |-> "set", key |-> "view engine", value |-> "pug"]
    /\ appSettings[2] = [app |-> 1, fn |-> "set", key |-> "views", value |-> "views"]

====
